---------------------------- MODULE Spec2Model ----------------------------
(***************************************************************************)
(* Model of the analyze-tiktok route handler (src/app/api/analyze-tiktok/  *)
(* route.ts, last revision, lines 919-1315) and of the official-API        *)
(* revision of the same route (src/unnamed/part_000).                      *)
(*                                                                         *)
(* One request is followed from the arrival of its body to its response.   *)
(* Every upstream (oEmbed, scraping service, classifier, datastore) is an  *)
(* environment whose answer is chosen nondeterministically when the        *)
(* awaiting step resumes.                                                  *)
(*                                                                         *)
(* JavaScript numbers are modelled as records [k, n]:                      *)
(*   k = "fin": the finite value n (in the unit of the field: counters in  *)
(*              units, 2-decimal ratios in hundredths, 1-decimal values in *)
(*              tenths);                                                   *)
(*   k = "inf": +Infinity (n = 1) or -Infinity (n = -1);                   *)
(*   k = "nan": NaN (n = 0).                                               *)
(* Unrounded quotients are exact rationals [k, n, d, e]: n * 10^e / d.     *)
(* Counters are integers or +-Infinity: fractional counters are outside    *)
(* the domain of the model.                                                *)
(***************************************************************************)
EXTENDS Integers, Sequences, FiniteSets, TLC

(***************************************************************************)
(* JavaScript number arithmetic                                            *)
(***************************************************************************)
Fin(n) == [k |-> "fin", n |-> n]
Inf(s) == [k |-> "inf", n |-> s]
NaN == [k |-> "nan", n |-> 0]

Abs(x) == IF x < 0 THEN -x ELSE x
Sgn(x) == IF x < 0 THEN -1 ELSE IF x > 0 THEN 1 ELSE 0

\* a + b on JavaScript numbers
Add(a, b) ==
  IF a.k = "nan" \/ b.k = "nan" THEN NaN
  ELSE IF a.k = "inf" /\ b.k = "inf" THEN (IF a.n = b.n THEN a ELSE NaN)
  ELSE IF a.k = "inf" THEN a
  ELSE IF b.k = "inf" THEN b
  ELSE Fin(a.n + b.n)

\* x || 0 on a JavaScript number: NaN and 0 are falsy
OrZero(x) == IF x.k = "nan" THEN Fin(0) ELSE x

\* x === 0
IsZero(x) == x.k = "fin" /\ x.n = 0

\* the exact rational n * 10^e / d, with d > 0 (TLC's integers are 32 bits wide:
\* the power of ten is kept apart and applied digit by digit when rounding)
Rat(n, d) == [k |-> "fin", n |-> n, d |-> d, e |-> 0]
RatInf(s) == [k |-> "inf", n |-> s, d |-> 1, e |-> 0]
RatNaN == [k |-> "nan", n |-> 0, d |-> 1, e |-> 0]

\* (t / v) * 100; a division by 0 gives NaN (0 / 0) or an infinity
Percent(t, v) ==
  IF t.k = "nan" \/ v.k = "nan" THEN RatNaN
  ELSE IF t.k = "inf" /\ v.k = "inf" THEN RatNaN
  ELSE IF v.k = "fin" /\ v.n = 0
    THEN (IF t.k = "fin" /\ t.n = 0 THEN RatNaN ELSE RatInf(Sgn(t.n)))
  ELSE IF t.k = "inf" THEN RatInf(t.n * Sgn(v.n))
  ELSE IF v.k = "inf" THEN Rat(0, 1)
  ELSE [k |-> "fin", n |-> t.n * Sgn(v.n), d |-> Abs(v.n), e |-> 2]

Pow10(e) == IF e = 0 THEN 1 ELSE IF e = 1 THEN 10 ELSE 100

\* r > c for an integer constant c (false for NaN)
Greater(r, c) ==
  CASE r.k = "nan" -> FALSE
    [] r.k = "inf" -> r.n > 0
    [] OTHER -> r.n * Pow10(r.e) > c * r.d

\* x > c on a JavaScript number
NumGreater(x, c) ==
  CASE x.k = "nan" -> FALSE
    [] x.k = "inf" -> x.n > 0
    [] OTHER -> x.n > c

\* Math.min(c, r * m) for integer constants c and m
MinTimes(c, r, m) ==
  CASE r.k = "nan" -> RatNaN
    [] r.k = "inf" -> IF r.n > 0 THEN Rat(c, 1) ELSE r
    [] OTHER -> IF m * r.n * Pow10(r.e) > c * r.d THEN Rat(c, 1)
                ELSE [r EXCEPT !.n = m * r.n]

\* quotient and remainder of n * 10^e by d, for n >= 0 and d > 0
RECURSIVE ScaledDiv(_, _, _)
ScaledDiv(n, d, e) ==
  IF e = 0 THEN [q |-> n \div d, r |-> n % d]
  ELSE LET p == ScaledDiv(n, d, e - 1)
       IN  [q |-> 10 * p.q + (10 * p.r) \div d, r |-> (10 * p.r) % d]

\* the integer nearest to n * 10^e / d (d > 0); an exact tie goes away from zero
\* when up, towards zero otherwise
RoundNearest(n, d, e, up) ==
  LET p == ScaledDiv(Abs(n), d, e)
  IN  Sgn(n) * (IF 2 * p.r > d \/ (2 * p.r = d /\ up) THEN p.q + 1 ELSE p.q)

\* Number(r.toFixed(digits)), in units of 10^-digits.  toFixed rounds the binary
\* double, which lies on either side of an exact decimal tie: up says on which.
ToFixed(r, digits, up) ==
  CASE r.k = "nan" -> NaN
    [] r.k = "inf" -> Inf(r.n)
    [] OTHER -> Fin(RoundNearest(r.n, r.d, r.e + digits, up))

\* the values Number(r.toFixed(digits)) can take: one, or two at an exact tie
Rounded(r, digits) == {ToFixed(r, digits, up) : up \in BOOLEAN}

(***************************************************************************)
(* calculateMetrics and generateRetentionCurve (pure functions)            *)
(***************************************************************************)
ZeroMetrics ==
  [engagementRate |-> Fin(0), viralScore |-> Fin(0), retentionRate |-> Fin(0),
   likesRatio |-> Fin(0), commentsRatio |-> Fin(0), sharesRatio |-> Fin(0),
   savesRatio |-> Fin(0), totalEngagements |-> Fin(0)]

\* the tiers without the highest one
EngagementBonusWithoutTopTier(engagementRate) ==
  IF Greater(engagementRate, 10) THEN 20
  ELSE IF Greater(engagementRate, 5) THEN 10
  ELSE 0

\* the tiers compared with >= in place of >
EngagementBonusInclusive(engagementRate) ==
  LET AtLeast(c) ==
        CASE engagementRate.k = "nan" -> FALSE
          [] engagementRate.k = "inf" -> engagementRate.n > 0
          [] OTHER -> engagementRate.n * Pow10(engagementRate.e) >= c * engagementRate.d
  IN  IF AtLeast(15) THEN 30
      ELSE IF AtLeast(10) THEN 20
      ELSE IF AtLeast(5) THEN 10
      ELSE 0

\* the tiered engagement bonus of the viral score
EngagementBonus(engagementRate) ==
  IF Greater(engagementRate, 15) THEN 30
  ELSE IF Greater(engagementRate, 10) THEN 20
  ELSE IF Greater(engagementRate, 5) THEN 10
  ELSE 0

\* the tiered view-count bonus of the viral score
ViewsBonus(views) ==
  IF NumGreater(views, 1000000) THEN 20
  ELSE IF NumGreater(views, 100000) THEN 10
  ELSE 0

Min(a, b) == IF a < b THEN a ELSE b
Max(a, b) == IF a > b THEN a ELSE b

\* calculateMetrics without the if (views === 0) return
calculateMetricsWithoutZeroGuard(videoData) ==
  LET views == OrZero(videoData.views)
      likes == OrZero(videoData.likes)
      comments == OrZero(videoData.comments)
      shares == OrZero(videoData.shares)
      saves == OrZero(videoData.saves)
      totalEngagements == Add(Add(Add(likes, comments), shares), saves)
      engagementRate == Percent(totalEngagements, views)
      viralScore == 50 + EngagementBonus(engagementRate) + ViewsBonus(views)
  IN  [engagementRate : Rounded(engagementRate, 2),
       viralScore : {Fin(Min(100, viralScore))},
       retentionRate : Rounded(MinTimes(90, engagementRate, 4), 1),
       likesRatio : Rounded(Percent(likes, views), 2),
       commentsRatio : Rounded(Percent(comments, views), 2),
       sharesRatio : Rounded(Percent(shares, views), 2),
       savesRatio : Rounded(Percent(saves, views), 2),
       totalEngagements : {totalEngagements}]

\* calculateMetrics with a score that grows with the rate: 50 + engagementRate
calculateMetricsLinearScore(videoData) ==
  LET views == OrZero(videoData.views)
      likes == OrZero(videoData.likes)
      comments == OrZero(videoData.comments)
      shares == OrZero(videoData.shares)
      saves == OrZero(videoData.saves)
      totalEngagements == Add(Add(Add(likes, comments), shares), saves)
      engagementRate == Percent(totalEngagements, views)
      rate == ToFixed([engagementRate EXCEPT !.e = 0], 0, TRUE)
      viralScore == IF rate.k = "fin" THEN Fin(Min(100, 50 + rate.n + ViewsBonus(views)))
                    ELSE IF rate.k = "inf" /\ rate.n > 0 THEN Fin(100)
                    ELSE rate
  IN  IF IsZero(views) THEN {ZeroMetrics}
      ELSE [engagementRate : Rounded(engagementRate, 2),
            viralScore : {viralScore},
            retentionRate : Rounded(MinTimes(90, engagementRate, 4), 1),
            likesRatio : Rounded(Percent(likes, views), 2),
            commentsRatio : Rounded(Percent(comments, views), 2),
            sharesRatio : Rounded(Percent(shares, views), 2),
            savesRatio : Rounded(Percent(saves, views), 2),
            totalEngagements : {totalEngagements}]

\* calculateMetrics with totalEngagements = likes + comments + shares
calculateMetricsWithoutSaves(videoData) ==
  LET views == OrZero(videoData.views)
      likes == OrZero(videoData.likes)
      comments == OrZero(videoData.comments)
      shares == OrZero(videoData.shares)
      saves == OrZero(videoData.saves)
      totalEngagements == Add(Add(likes, comments), shares)
      engagementRate == Percent(totalEngagements, views)
      viralScore == 50 + EngagementBonus(engagementRate) + ViewsBonus(views)
  IN  IF IsZero(views) THEN {ZeroMetrics}
      ELSE [engagementRate : Rounded(engagementRate, 2),
            viralScore : {Fin(Min(100, viralScore))},
            retentionRate : Rounded(MinTimes(90, engagementRate, 4), 1),
            likesRatio : Rounded(Percent(likes, views), 2),
            commentsRatio : Rounded(Percent(comments, views), 2),
            sharesRatio : Rounded(Percent(shares, views), 2),
            savesRatio : Rounded(Percent(saves, views), 2),
            totalEngagements : {totalEngagements}]

\* the records calculateMetrics can return (one for each way the decimal ties of its
\* rounded members can fall); engagementRate, ratios: hundredths; retentionRate: tenths
calculateMetrics(videoData) ==
  LET views == OrZero(videoData.views)
      likes == OrZero(videoData.likes)
      comments == OrZero(videoData.comments)
      shares == OrZero(videoData.shares)
      saves == OrZero(videoData.saves)
      totalEngagements == Add(Add(Add(likes, comments), shares), saves)
      engagementRate == Percent(totalEngagements, views)
      viralScore == 50 + EngagementBonus(engagementRate) + ViewsBonus(views)
  IN  IF IsZero(views) THEN {ZeroMetrics}
      ELSE [engagementRate : Rounded(engagementRate, 2),
            viralScore : {Fin(Min(100, viralScore))},
            retentionRate : Rounded(MinTimes(90, engagementRate, 4), 1),
            likesRatio : Rounded(Percent(likes, views), 2),
            commentsRatio : Rounded(Percent(comments, views), 2),
            sharesRatio : Rounded(Percent(shares, views), 2),
            savesRatio : Rounded(Percent(saves, views), 2),
            totalEngagements : {totalEngagements}]

\* Math.max(30, Math.min(85, engagementRate * 5)), in hundredths;
\* engagementRate is the rounded rate of the metrics record (hundredths)
BaseRetention(engagementRate) ==
  CASE engagementRate.k = "nan" -> NaN
    [] engagementRate.k = "inf" -> IF engagementRate.n > 0 THEN Fin(8500) ELSE Fin(3000)
    [] OTHER -> Fin(Max(3000, Min(8500, 5 * engagementRate.n)))

\* Number(Math.max(10, baseRetention * (1 - (i / 100) * 0.6)).toFixed(1)), in tenths
RetentionAt(baseRetention, i) ==
  IF baseRetention.k = "nan" THEN {NaN}
  ELSE LET retention == Rat(baseRetention.n * (1000 - 6 * i), 100000)
       IN  IF retention.n < 10 * retention.d THEN {Fin(100)}
           ELSE Rounded(retention, 1)

\* the loop for (i = 0; i <= 100; i += 10), continued from index i: the curves it
\* can build, one for each way the points' decimal ties can fall
RECURSIVE CurvesFrom(_, _)
CurvesFrom(baseRetention, i) ==
  IF i > 100 THEN {<<>>}
  ELSE {<<[timePercent |-> i, retention |-> r]>> \o rest :
           r \in RetentionAt(baseRetention, i),
           rest \in CurvesFrom(baseRetention, i + 10)}

\* generateRetentionCurve with the loop started at i = 10
generateRetentionCurveFromTen(metrics) ==
  CurvesFrom(BaseRetention(metrics.engagementRate), 10)

generateRetentionCurve(metrics) ==
  CurvesFrom(BaseRetention(metrics.engagementRate), 0)

(***************************************************************************)
(* JSON / JavaScript values received from outside: [t, s, num].            *)
(* A string is the sequence s of its segments (the string is their         *)
(* concatenation); a number carries its value in num.                      *)
(***************************************************************************)
JUndefined == [t |-> "undefined", s |-> <<>>, num |-> NaN]
JNull == [t |-> "null", s |-> <<>>, num |-> NaN]
JNum(x) == [t |-> "number", s |-> <<>>, num |-> x]
JStr(segs) == [t |-> "string", s |-> segs, num |-> NaN]
JBool(b) == [t |-> "boolean", s |-> <<>>, num |-> IF b THEN Fin(1) ELSE Fin(0)]
JArray(elems) == [t |-> "array", s |-> elems, num |-> NaN]
JObject == [t |-> "object", s |-> <<>>, num |-> NaN]

\* !!j
Truthy(j) ==
  CASE j.t \in {"undefined", "null"} -> FALSE
    [] j.t = "number" -> ~(j.num.k = "nan" \/ IsZero(j.num))
    [] j.t = "string" -> j.s # <<>>
    [] j.t = "boolean" -> j.num.n = 1
    [] OTHER -> TRUE

Digits == {"0", "1", "2", "3", "4", "5", "6", "7", "8", "9"}

DigitValue(c) ==
  CASE c = "0" -> 0 [] c = "1" -> 1 [] c = "2" -> 2 [] c = "3" -> 3
    [] c = "4" -> 4 [] c = "5" -> 5 [] c = "6" -> 6 [] c = "7" -> 7
    [] c = "8" -> 8 [] c = "9" -> 9

RECURSIVE DecimalValue(_)
DecimalValue(segs) ==
  IF segs = <<>> THEN 0
  ELSE 10 * DecimalValue(SubSeq(segs, 1, Len(segs) - 1)) + DigitValue(segs[Len(segs)])

\* Number(string): "" is 0, a run of decimal digits is its value, other text is NaN
StringToNumber(segs) ==
  IF \A i \in 1..Len(segs) : segs[i] \in Digits THEN Fin(DecimalValue(segs)) ELSE NaN

\* Number(j)
ToNumber(j) ==
  CASE j.t = "undefined" -> NaN
    [] j.t = "null" -> Fin(0)
    [] j.t = "number" -> j.num
    [] j.t = "boolean" -> j.num
    [] j.t = "string" -> StringToNumber(j.s)
    [] OTHER -> NaN

\* Number(j) || 0
NumberOrZero(j) == OrZero(ToNumber(j))

\* hay.includes(needle) on sequences: needle occurs as a contiguous run
Includes(hay, needle) ==
  \E i \in 1..(Len(hay) - Len(needle) + 1) :
     SubSeq(hay, i, i + Len(needle) - 1) = needle

PlatformToken == <<"tiktok.com">>

(***************************************************************************)
(* Inputs: request bodies and upstream answers                             *)
(***************************************************************************)
VideoUrl == JStr(<<"https://www.", "tiktok.com", "/@user/video/7">>)

\* the url member of a request body
UrlValues ==
  {JUndefined, JNull, JStr(<<>>), JStr(<<"https://example.com/v/7">>),
   VideoUrl, JStr(<<"not a url ", "tiktok.com">>),
   JNum(Fin(0)), JNum(Fin(7)), JBool(TRUE), JObject,
   JArray(<<>>), JArray(<<"tiktok.com">>)}

\* what request.json() yields: a rejection, or the parsed JSON value
Bodies ==
  {[kind |-> "unparsable", url |-> JUndefined],
   [kind |-> "null", url |-> JUndefined],
   [kind |-> "primitive", url |-> JUndefined]}
  \cup {[kind |-> "object", url |-> u] : u \in UrlValues}

\* oEmbed answers; an empty member stands for an absent or falsy one
NoOembedData == [title |-> "", thumbnail_url |-> "", author_name |-> "", author_url |-> ""]
OembedData ==
  {[title |-> "Dance", thumbnail_url |-> "https://cdn/t.jpg",
    author_name |-> "Alice", author_url |-> "https://www.tiktok.com/@alice"],
   NoOembedData}
OembedAnswers ==
  {[kind |-> k, data |-> NoOembedData] : k \in {"reject", "notok", "badjson"}}
  \cup {[kind |-> "ok", data |-> d] : d \in OembedData}

\* the members of item.stats in the scraped state blob
PlayCounts ==
  {JUndefined, JStr(<<"a", "b">>), JStr(<<"1", "0", "0", "0">>),
   JNum(Fin(0)), JNum(Fin(1000)), JNum(Fin(3000)), JNum(Fin(100000)),
   JNum(Fin(200000)), JNum(Fin(1100000)), JNum(Fin(-1000)), JNum(Inf(1))}
DiggCounts ==
  {JNum(Fin(0)), JNum(Fin(50)), JNum(Fin(100)), JNum(Fin(150)), JNum(Fin(200)),
   JNum(Fin(200000)), JNum(Fin(-50)), JNum(Inf(1))}
CommentCounts == {JNum(Fin(0)), JNum(Fin(50))}
ShareCounts == {JNull, JNum(Fin(30))}
CollectCounts == {JUndefined, JNum(Fin(20))}

ZeroStats ==
  [playCount |-> JNum(Fin(0)), diggCount |-> JNum(Fin(0)),
   commentCount |-> JNum(Fin(0)), shareCount |-> JNum(Fin(0)),
   collectCount |-> JNum(Fin(0))]

\* every play count with every like count, and every mix of the other counters
\* around the 5%, 10% and 15% engagement thresholds of 1000 views
\* counters whose engagement rate, 15.001, lies just above a tier and is
\* printed as 15.00
BoundaryStats ==
  [ZeroStats EXCEPT !.playCount = JNum(Fin(100000)), !.diggCount = JNum(Fin(15001))]

StatsObjects ==
  {[ZeroStats EXCEPT !.playCount = p, !.diggCount = d] :
      p \in PlayCounts, d \in DiggCounts}
  \cup {BoundaryStats}
  \cup [playCount : {JNum(Fin(1000))},
        diggCount : {JNum(Fin(0)), JNum(Fin(50)), JNum(Fin(100))},
        commentCount : CommentCounts, shareCount : ShareCounts,
        collectCount : CollectCounts]

NoStats ==
  [playCount |-> JUndefined, diggCount |-> JUndefined, commentCount |-> JUndefined,
   shareCount |-> JUndefined, collectCount |-> JUndefined]

ExampleStats ==
  [playCount |-> JNum(Fin(1000)), diggCount |-> JNum(Fin(100)),
   commentCount |-> JNum(Fin(50)), shareCount |-> JNum(Fin(30)),
   collectCount |-> JNum(Fin(20))]

\* longest textExtra list of a scraped item
MaxTextExtra == 2

\* hashtagName members of textExtra entries; "" stands for an entry without one
HashtagNames == {"", "fyp", "dance"}

RECURSIVE SeqsUpTo(_, _)
SeqsUpTo(S, n) ==
  IF n = 0 THEN {<<>>}
  ELSE LET shorter == SeqsUpTo(S, n - 1)
       IN  shorter \cup {Append(q, x) : q \in {r \in shorter : Len(r) = n - 1}, x \in S}

TextExtras == SeqsUpTo(HashtagNames, MaxTextExtra)

\* the first entry of ItemModule, with the follower counts UserModule holds for its author
DefaultItem ==
  [hasStats |-> TRUE, stats |-> ExampleStats, desc |-> "my dance", author |-> "alice",
   userFollowerCount |-> JUndefined, statsFollowerCount |-> JUndefined,
   textExtraIsArray |-> TRUE, textExtra |-> <<>>]

Items ==
  {[DefaultItem EXCEPT !.stats = st] : st \in StatsObjects}
  \cup {[DefaultItem EXCEPT !.textExtra = te] : te \in TextExtras}
  \cup {[DefaultItem EXCEPT !.desc = d, !.author = a, !.textExtraIsArray = FALSE] :
          d \in {"", "my dance"}, a \in {"", "alice"}}
  \cup {[DefaultItem EXCEPT !.userFollowerCount = u, !.statsFollowerCount = f] :
          u \in {JUndefined, JNull, JNum(Fin(0)), JNum(Fin(1200))},
          f \in {JUndefined, JNum(Fin(900)), JStr(<<"a">>)}}
  \cup {[DefaultItem EXCEPT !.hasStats = FALSE, !.stats = NoStats]}

\* the JSON of the SIGI_STATE script: null, a non-object value, or an object whose
\* ItemModule is absent, empty, or has a first entry
Docs ==
  {[kind |-> k, items |-> "absent", item |-> DefaultItem] : k \in {"null", "scalar"}}
  \cup {[kind |-> "object", items |-> i, item |-> DefaultItem] : i \in {"absent", "empty"}}
  \cup {[kind |-> "object", items |-> "one", item |-> it] : it \in Items}

DefaultDoc == [kind |-> "null", items |-> "absent", item |-> DefaultItem]

\* the markup: no SIGI_STATE script, a script whose text is not JSON, or one that is
Pages ==
  {[script |-> sc, doc |-> DefaultDoc] : sc \in {"none", "malformed"}}
  \cup {[script |-> "json", doc |-> d] : d \in Docs}

DefaultPage == [script |-> "none", doc |-> DefaultDoc]

\* the scraping service's answer: the fetch rejects, is aborted by the 25 s timer,
\* resolves with a non-OK or an OK status (either has a body), or the body cannot be read
ScrapeAnswers ==
  {[kind |-> k, page |-> DefaultPage] : k \in {"reject", "timeout", "badtext"}}
  \cup {[kind |-> k, page |-> pg] : k \in {"notok", "ok"}, pg \in Pages}

(***************************************************************************)
(* Acquisition                                                             *)
(***************************************************************************)
defaultData ==
  [title |-> "Video TikTok", description |-> "", thumbnail |-> JNull,
   authorUsername |-> "", authorUrl |-> "", authorFollowers |-> Fin(0),
   views |-> Fin(0), likes |-> Fin(0), comments |-> Fin(0), shares |-> Fin(0),
   saves |-> Fin(0), hashtags |-> <<>>]

\* extractBasicData filling the record from the body whatever the status
extractBasicDataAnyStatus(answer) ==
  IF answer.kind \in {"ok", "notok"}
  THEN [defaultData EXCEPT
          !.title = IF answer.data.title # "" THEN answer.data.title
                    ELSE "Titre non disponible",
          !.description = answer.data.title,
          !.thumbnail = IF answer.data.thumbnail_url # ""
                        THEN JStr(<<answer.data.thumbnail_url>>) ELSE JNull,
          !.authorUsername = answer.data.author_name,
          !.authorUrl = answer.data.author_url]
  ELSE defaultData

\* the record extractBasicData returns for an oEmbed answer
extractBasicData(answer) ==
  IF answer.kind = "ok"
  THEN [defaultData EXCEPT
          !.title = IF answer.data.title # "" THEN answer.data.title
                    ELSE "Titre non disponible",
          !.description = answer.data.title,
          !.thumbnail = IF answer.data.thumbnail_url # ""
                        THEN JStr(<<answer.data.thumbnail_url>>) ELSE JNull,
          !.authorUsername = answer.data.author_name,
          !.authorUrl = answer.data.author_url]
  ELSE defaultData

\* a ?? b
Coalesce(a, b) == IF a.t \in {"undefined", "null"} THEN b ELSE a

NoDetail == [found |-> FALSE, data |-> [views |-> Fin(0)]]

\* the markup holds a SIGI_STATE script whose JSON has a first ItemModule entry
\* with a stats member
PageHasStats(page) ==
  /\ page.script = "json"
  /\ page.doc.kind = "object"
  /\ page.doc.items = "one"
  /\ page.doc.item.hasStats

\* parseDetailedStats answering an all-defaults record where the code answers null
parseDetailedStatsDefaultsForMissing(page) ==
  IF PageHasStats(page)
  THEN [found |-> TRUE,
        data |-> [views |-> NumberOrZero(page.doc.item.stats.playCount),
                  likes |-> NumberOrZero(page.doc.item.stats.diggCount),
                  comments |-> NumberOrZero(page.doc.item.stats.commentCount),
                  shares |-> NumberOrZero(page.doc.item.stats.shareCount),
                  saves |-> NumberOrZero(page.doc.item.stats.collectCount),
                  description |-> page.doc.item.desc,
                  authorUsername |-> page.doc.item.author,
                  authorFollowers |-> Fin(0),
                  hashtags |-> <<>>]]
  ELSE [found |-> TRUE,
        data |-> [views |-> Fin(0), likes |-> Fin(0), comments |-> Fin(0),
                  shares |-> Fin(0), saves |-> Fin(0), description |-> "",
                  authorUsername |-> "", authorFollowers |-> Fin(0),
                  hashtags |-> <<>>]]

\* parseDetailedStats(html): found = FALSE is the null result
parseDetailedStats(page) ==
  IF page.script # "json" THEN NoDetail
  ELSE IF page.doc.kind # "object" THEN NoDetail
  ELSE IF page.doc.items # "one" THEN NoDetail
  ELSE IF ~page.doc.item.hasStats THEN NoDetail
  ELSE LET item == page.doc.item
           stats == item.stats
           followerCount ==
             NumberOrZero(Coalesce(item.userFollowerCount,
                                   Coalesce(item.statsFollowerCount, JNum(Fin(0)))))
       IN  [found |-> TRUE,
            data |-> [views |-> NumberOrZero(stats.playCount),
                      likes |-> NumberOrZero(stats.diggCount),
                      comments |-> NumberOrZero(stats.commentCount),
                      shares |-> NumberOrZero(stats.shareCount),
                      saves |-> NumberOrZero(stats.collectCount),
                      description |-> item.desc,
                      authorUsername |-> item.author,
                      authorFollowers |-> followerCount,
                      hashtags |-> IF item.textExtraIsArray
                                   THEN SelectSeq(item.textExtra, LAMBDA h : h # "")
                                   ELSE <<>>]]

\* extractDetailedStats without the if (response.ok) test
extractDetailedStatsAnyStatus(answer) ==
  IF answer.kind \in {"ok", "notok"} THEN parseDetailedStats(answer.page) ELSE NoDetail

\* extractDetailedStats(url), given the scraping service's answer
extractDetailedStats(answer) ==
  IF answer.kind = "ok" THEN parseDetailedStats(answer.page) ELSE NoDetail

\* the merge with the hashtag list written back to front
MergeReversingHashtags(videoData, detailedStats) ==
  [(detailedStats @@ videoData) EXCEPT
     !.hashtags = [i \in 1..Len(@) |-> @[Len(@) + 1 - i]]]

\* the spread written the other way round: { ...detailedStats, ...videoData }
MergeBaselineWins(videoData, detailedStats) == videoData @@ detailedStats

\* { ...videoData, ...detailedStats }
Merge(videoData, detailedStats) == detailedStats @@ videoData

(***************************************************************************)
(* Classifier                                                              *)
(***************************************************************************)
SeoObject(score, niche, recs) ==
  [kind |-> "object", score |-> score, niche |-> niche, recommendations |-> recs]

SeoNoKey ==
  SeoObject(JNum(Fin(50)), "Non determinee", <<"Configurez OpenAI pour une analyse complete">>)
SeoError == SeoObject(JNum(Fin(50)), "Non determinee", <<"Erreur analyse IA">>)

\* what JSON.parse(content) can yield
SeoValues ==
  {SeoObject(JNum(Fin(85)), "fitness", <<"r1", "r2", "r3">>),
   SeoObject(JNum(Fin(150)), "humour", <<"r1", "r2", "r3", "r4">>),
   SeoObject(JUndefined, "", <<>>),
   [kind |-> "null", score |-> JUndefined, niche |-> "", recommendations |-> <<>>],
   [kind |-> "scalar", score |-> JUndefined, niche |-> "", recommendations |-> <<>>]}

ClassifierAnswers ==
  {[kind |-> k, seo |-> SeoError] : k \in {"reject", "notok", "badjson", "nocontent", "unparsable"}}
  \cup {[kind |-> "ok", seo |-> v] : v \in SeoValues}

\* analyzeSEO with one static answer for both the missing key and the failed call
analyzeSEOSingleFallback(answer) == IF answer.kind = "ok" THEN answer.seo ELSE SeoNoKey

\* the value analyzeSEO returns for a classifier answer
analyzeSEO(answer) == IF answer.kind = "ok" THEN answer.seo ELSE SeoError

(***************************************************************************)
(* Persistence and response assembly                                       *)
(***************************************************************************)
\* JSON.stringify of a number: NaN and the infinities are written as null
JsonNumber(x) == IF x.k = "fin" THEN x ELSE [k |-> "null", n |-> 0]

\* JSON.stringify(retentionCurve)
JsonCurve(curve) ==
  [i \in 1..Len(curve) |->
     [timePercent |-> curve[i].timePercent, retention |-> JsonNumber(curve[i].retention)]]

\* the row saveToDatabase inserts
InsertRow(url, videoData, seoAnalysis, metrics, retentionCurve) ==
  [tiktok_url |-> url,
   title |-> videoData.title,
   author_username |-> videoData.authorUsername,
   description |-> videoData.description,
   views_count |-> OrZero(videoData.views),
   likes_count |-> OrZero(videoData.likes),
   comments_count |-> OrZero(videoData.comments),
   shares_count |-> OrZero(videoData.shares),
   saves_count |-> OrZero(videoData.saves),
   engagement_rate |-> metrics.engagementRate,
   viral_score |-> metrics.viralScore,
   retention_rate |-> metrics.retentionRate,
   seo_score |-> seoAnalysis.score,
   niche |-> seoAnalysis.niche,
   hashtags |-> [json |-> videoData.hashtags],
   retention_curve |-> [json |-> JsonCurve(retentionCurve)]]

\* building the row reads seoAnalysis.score, a TypeError when seoAnalysis is null
RowThrows(seoAnalysis) == seoAnalysis.kind = "null"

InsertAnswers == {"ok", "error", "throw"}

NoRecord == [saved |-> FALSE, id |-> 0]

\* saveToDatabase returning a record whatever the insert answered
saveToDatabaseAlwaysRecord(answer, newId) == [saved |-> TRUE, id |-> newId]

\* the value saveToDatabase returns: the inserted row's record, or null
saveToDatabase(answer, newId) ==
  IF answer = "ok" THEN [saved |-> TRUE, id |-> newId] ELSE NoRecord

\* formatNumber(num): the printed number (tenths when a suffix follows) and its
\* suffix; a set, for the two ways a decimal tie can fall
formatNumber(num) ==
  CASE num.k = "nan" -> {[value |-> num, suffix |-> ""]}
    [] num.k = "inf" -> {[value |-> num, suffix |-> IF num.n > 0 THEN "B" ELSE ""]}
    [] OTHER ->
         IF num.n >= 1000000000
           THEN [value : Rounded(Rat(num.n, 1000000000), 1), suffix : {"B"}]
         ELSE IF num.n >= 1000000
           THEN [value : Rounded(Rat(num.n, 1000000), 1), suffix : {"M"}]
         ELSE IF num.n >= 1000
           THEN [value : Rounded(Rat(num.n, 1000), 1), suffix : {"K"}]
         ELSE {[value |-> num, suffix |-> ""]}

RECURSIVE SumRetention(_)
SumRetention(curve) ==
  IF curve = <<>> THEN Fin(0)
  ELSE Add(SumRetention(SubSeq(curve, 1, Len(curve) - 1)), curve[Len(curve)].retention)

\* retentionCurve.reduce((sum, p) => sum + p.retention, 0) / retentionCurve.length
averageRetention(curve) ==
  LET sum == SumRetention(curve)
  IN  IF Len(curve) = 0 \/ sum.k = "nan" THEN RatNaN
      ELSE IF sum.k = "inf" THEN RatInf(sum.n)
      ELSE Rat(sum.n, Len(curve))

\* the formatted member of stats: one record for each way the decimal ties can fall
FormattedStats(videoData) ==
  [views : formatNumber(OrZero(videoData.views)),
   likes : formatNumber(OrZero(videoData.likes)),
   comments : formatNumber(OrZero(videoData.comments)),
   shares : formatNumber(OrZero(videoData.shares)),
   saves : formatNumber(OrZero(videoData.saves))]

\* the analysis object of the success response, without its id member
AnalysisBody(url, videoData, seoAnalysis, metrics, retentionCurve, formatted) ==
  [video |-> [url |-> url,
              title |-> IF videoData.title # "" THEN videoData.title
                        ELSE "Titre non disponible",
              description |-> videoData.description,
              thumbnail |-> IF Truthy(videoData.thumbnail) THEN videoData.thumbnail
                            ELSE JNull,
              author |-> [username |-> videoData.authorUsername,
                          followers |-> IF videoData.authorFollowers.k = "fin"
                                        THEN videoData.authorFollowers ELSE Fin(0)],
              hashtags |-> videoData.hashtags],
   stats |-> [views |-> OrZero(videoData.views),
              likes |-> OrZero(videoData.likes),
              comments |-> OrZero(videoData.comments),
              shares |-> OrZero(videoData.shares),
              saves |-> OrZero(videoData.saves),
              formatted |-> formatted],
   metrics |-> metrics,
   seo |-> seoAnalysis,
   retention |-> [curve |-> retentionCurve,
                  averageRetention |-> averageRetention(retentionCurve)]]

\* id: savedRecord?.id is left out of the JSON body when it is undefined
WithId(analysis, savedRecord) ==
  IF savedRecord.saved THEN ("id" :> savedRecord.id) @@ analysis ELSE analysis

SuccessResponse(analysis) ==
  [status |-> 200, body |-> [success |-> TRUE, analysis |-> analysis]]

InvalidUrlResponse ==
  [status |-> 400, body |-> [error |-> "URL TikTok invalide"]]

\* the catch block answering without the details member
ErrorResponseWithoutDetails(message) ==
  [status |-> 500, body |-> [error |-> "Erreur lors de l'analyse"]]

ErrorResponse(message) ==
  [status |-> 500, body |-> [error |-> "Erreur lors de l'analyse", details |-> message]]

(***************************************************************************)
(* Official-API revision of the route (src/unnamed/part_000)               *)
(***************************************************************************)
MOCK_API_RESPONSE ==
  [title |-> "Titre obtenu via l'API Officielle",
   description |-> "Description de la video, autorisee et fournie par TikTok.",
   thumbnail |-> JStr(<<"https://p16-sign-va.tiktokcdn.com/avt.jpeg">>),
   authorUsername |-> "auteur_officiel",
   views |-> Fin(2500000), likes |-> Fin(210000), comments |-> Fin(4500),
   shares |-> Fin(8000), hashtags |-> <<"api", "officielle", "tiktok">>]

officialCalculateMetrics(videoData) ==
  LET views == videoData.views
      likes == videoData.likes
      comments == videoData.comments
      shares == videoData.shares
      totalEngagements == Add(Add(likes, comments), shares)
      engagementRate == Percent(totalEngagements, views)
  IN  IF IsZero(views)
      THEN {[engagementRate |-> Fin(0), likesRatio |-> Fin(0), commentsRatio |-> Fin(0),
             sharesRatio |-> Fin(0), totalEngagements |-> Fin(0)]}
      ELSE [engagementRate : Rounded(engagementRate, 2),
            likesRatio : Rounded(Percent(likes, views), 2),
            commentsRatio : Rounded(Percent(comments, views), 2),
            sharesRatio : Rounded(Percent(shares, views), 2),
            totalEngagements : {totalEngagements}]

officialInsertRow(url, videoData, metrics) ==
  [tiktok_url |-> url,
   title |-> videoData.title,
   author_username |-> videoData.authorUsername,
   description |-> videoData.description,
   views_count |-> videoData.views,
   likes_count |-> videoData.likes,
   comments_count |-> videoData.comments,
   shares_count |-> videoData.shares,
   engagement_rate |-> metrics.engagementRate,
   hashtags |-> [json |-> videoData.hashtags]]

\* video and stats are empty objects in this revision
officialAnalysisBody(metrics) ==
  [video |-> <<>>, stats |-> <<>>, metrics |-> metrics]

(***************************************************************************)
(* The request as a state machine                                          *)
(***************************************************************************)
VARIABLES
  variant,        \* which revision of the route serves the request
  env,            \* process.env: which credentials are configured
  body,           \* what request.json() yields
  pc,             \* position of the handler
  url,            \* const { url }
  detailedStats,  \* what extractDetailedStats returned (null before it has run)
  videoData, seoAnalysis, metrics, retentionCurve, savedRecord,
  responses,      \* the responses returned for the request, in order
  calls,          \* number of requests issued to each upstream
  inflight,       \* upstreams with an unanswered request of this handler
  upstream,       \* the last answer of each upstream ("none" before it is asked)
  rows,           \* the rows of table video_analyses
  suspended,      \* the locals of the other requests of the process, each waiting at an await
  page            \* the useState cells of the dashboard component

vars ==
  <<variant, env, body, pc, url, detailedStats, videoData, seoAnalysis, metrics, retentionCurve,
    savedRecord, responses, calls, inflight, upstream, rows, suspended, page>>

Upstreams == {"oembed", "scraping", "official", "classifier", "datastore"}

\* useState(''), useState(false), useState(null), useState(''): the dashboard
\* as mounted, with no request of it sent or outstanding
InitialPage ==
  [revision |-> "page.tsx", url |-> <<>>, loading |-> FALSE, analysis |-> "null",
   error |-> "", outstanding |-> 0, sent |-> 0]

\* the credentials each revision reads; the others are left unset
Envs ==
  [SCRAPINGBEE_API_KEY : BOOLEAN, OPENAI_API_KEY : BOOLEAN,
   TIKTOK_CLIENT_KEY : {FALSE}, TIKTOK_CLIENT_SECRET : {FALSE}]

officialEnvs ==
  [SCRAPINGBEE_API_KEY : {FALSE}, OPENAI_API_KEY : {FALSE},
   TIKTOK_CLIENT_KEY : BOOLEAN, TIKTOK_CLIENT_SECRET : BOOLEAN]

Init ==
  /\ variant \in {"scraping", "official"}
  /\ env \in (IF variant = "scraping" THEN Envs ELSE officialEnvs)
  /\ body \in Bodies
  /\ pc = "start"
  /\ url = JUndefined
  /\ detailedStats = NoDetail
  /\ videoData = defaultData
  /\ seoAnalysis = SeoError
  /\ metrics = ZeroMetrics
  /\ retentionCurve = <<>>
  /\ savedRecord = NoRecord
  /\ responses = <<>>
  /\ calls = [u \in Upstreams |-> 0]
  /\ inflight = {}
  /\ upstream = [u \in Upstreams |-> "none"]
  /\ rows = <<>>
  /\ suspended = <<>>
  /\ page = InitialPage

\* const { url } = await request.json()
UrlOf(b) == IF b.kind = "object" THEN b.url ELSE JUndefined

\* Validate with the guard reduced to if (!url)
ValidateWithoutDomainCheck(b) ==
  IF b.kind \in {"unparsable", "null"} THEN "throws"
  ELSE IF ~Truthy(UrlOf(b)) THEN "invalid"
  ELSE IF UrlOf(b).t \in {"string", "array"} THEN "valid"
  ELSE "throws"

\* the outcome of the first lines of POST: "throws", "invalid" or "valid"
Validate(b) ==
  LET u == UrlOf(b)
  IN  IF b.kind \in {"unparsable", "null"} THEN "throws"
      ELSE IF ~Truthy(u) THEN "invalid"
      ELSE IF u.t = "string"
        THEN (IF Includes(u.s, PlatformToken) THEN "valid" ELSE "invalid")
      ELSE IF u.t = "array"
        THEN (IF \E i \in 1..Len(u.s) : <<u.s[i]>> = PlatformToken THEN "valid" ELSE "invalid")
      ELSE "throws"

Respond(r) ==
  /\ responses' = Append(responses, r)
  /\ pc' = "done"

Issue(u) ==
  /\ calls' = [calls EXCEPT ![u] = @ + 1]
  /\ inflight' = inflight \cup {u}

\* the answer of a call the handler did not wait for: the call stays in flight
AnsweredWithoutAwait(u, kind) ==
  /\ inflight' = inflight
  /\ upstream' = [upstream EXCEPT ![u] = kind]

Answered(u, kind) ==
  /\ inflight' = inflight \ {u}
  /\ upstream' = [upstream EXCEPT ![u] = kind]

\* request.json() rejects, destructuring the body throws, or url.includes is not a
\* function: the catch block answers 500
BodyThrows ==
  /\ pc = "start"
  /\ Validate(body) = "throws"
  /\ Respond(ErrorResponse("TypeError or SyntaxError"))
  /\ UNCHANGED <<page, suspended, variant, env, body, detailedStats, url, videoData, seoAnalysis, metrics,
                 retentionCurve, savedRecord, calls, inflight, upstream, rows>>

\* if (!url || !url.includes('tiktok.com')) return 400
RejectUrl ==
  /\ pc = "start"
  /\ Validate(body) = "invalid"
  /\ url' = UrlOf(body)
  /\ Respond(InvalidUrlResponse)
  /\ UNCHANGED <<page, suspended, variant, env, body, detailedStats, videoData, seoAnalysis, metrics,
                 retentionCurve, savedRecord, calls, inflight, upstream, rows>>

AcceptUrl ==
  /\ pc = "start"
  /\ Validate(body) = "valid"
  /\ url' = UrlOf(body)
  /\ pc' = IF variant = "scraping" THEN "basic" ELSE "official"
  /\ UNCHANGED <<page, suspended, variant, env, body, detailedStats, videoData, seoAnalysis, metrics, retentionCurve,
                 savedRecord, responses, calls, inflight, upstream, rows>>

\* extractBasicData: fetch(oembedUrl)
CallOembed ==
  /\ pc = "basic"
  /\ Issue("oembed")
  /\ pc' = "oembed"
  /\ UNCHANGED <<page, suspended, variant, env, body, detailedStats, url, videoData, seoAnalysis, metrics,
                 retentionCurve, savedRecord, responses, upstream, rows>>

\* 1) Base: videoData = await extractBasicData(url)
OembedReturn ==
  /\ pc = "oembed"
  /\ \E answer \in OembedAnswers :
       /\ Answered("oembed", answer.kind)
       /\ videoData' = extractBasicData(answer)
  /\ pc' = "detailed"
  /\ UNCHANGED <<page, suspended, variant, env, body, detailedStats, url, seoAnalysis, metrics, retentionCurve,
                 savedRecord, responses, calls, rows>>

\* 2) Details: skipped when SCRAPINGBEE_API_KEY is not set
SkipDetailedStats ==
  /\ pc = "detailed"
  /\ ~env.SCRAPINGBEE_API_KEY
  /\ pc' = "seo"
  /\ UNCHANGED <<page, suspended, variant, env, body, detailedStats, url, videoData, seoAnalysis, metrics,
                 retentionCurve, savedRecord, responses, calls, inflight, upstream, rows>>

\* extractDetailedStats: fetch(scrapingUrl, { signal })
CallScraping ==
  /\ pc = "detailed"
  /\ env.SCRAPINGBEE_API_KEY
  /\ Issue("scraping")
  /\ pc' = "scrape"
  /\ UNCHANGED <<page, suspended, variant, env, body, detailedStats, url, videoData, seoAnalysis, metrics,
                 retentionCurve, savedRecord, responses, upstream, rows>>

\* extractDetailedStats returns for the answer, and POST continues:
\* if (detailedStats) videoData = { ...videoData, ...detailedStats }
ScrapingAnswer(answer) ==
  /\ detailedStats' = extractDetailedStats(answer)
  /\ Answered("scraping",
              IF answer.kind = "ok" /\ ~PageHasStats(answer.page) THEN "nodata"
              ELSE answer.kind)
  /\ videoData' = IF detailedStats'.found
                  THEN Merge(videoData, detailedStats'.data) ELSE videoData
  /\ pc' = "seo"
  /\ UNCHANGED <<page, suspended, variant, env, body, url, seoAnalysis, metrics, retentionCurve,
                 savedRecord, responses, calls, rows>>

\* the fetch rejects, or resolves with a non-OK status (its body is not read)
ScrapingFails ==
  /\ pc = "scrape"
  /\ \E answer \in {a \in ScrapeAnswers : a.kind \in {"reject", "notok"}} :
       ScrapingAnswer(answer)

\* setTimeout(() => controller.abort(), 25_000) fires while the fetch is pending:
\* the fetch rejects with an AbortError
ScrapingTimeout ==
  /\ pc = "scrape"
  /\ \E answer \in {a \in ScrapeAnswers : a.kind = "timeout"} :
       ScrapingAnswer(answer)

\* the fetch resolves with an OK status once the headers have arrived;
\* clearTimeout(timeoutId) disarms the timer, then await response.text()
ScrapingHeaders ==
  /\ pc = "scrape"
  /\ pc' = "scrapebody"
  /\ UNCHANGED <<page, suspended, variant, env, body, detailedStats, url, videoData, seoAnalysis, metrics,
                 retentionCurve, savedRecord, responses, calls, inflight, upstream, rows>>

\* response.text() resolves with the markup, or rejects
ScrapingBody ==
  /\ pc = "scrapebody"
  /\ \E answer \in {a \in ScrapeAnswers : a.kind \in {"ok", "badtext"}} :
       ScrapingAnswer(answer)

\* 3) SEO: analyzeSEO without OPENAI_API_KEY returns the static answer
SeoWithoutKey ==
  /\ pc = "seo"
  /\ ~env.OPENAI_API_KEY
  /\ seoAnalysis' = SeoNoKey
  /\ pc' = "metrics"
  /\ UNCHANGED <<page, suspended, variant, env, body, detailedStats, url, videoData, metrics, retentionCurve,
                 savedRecord, responses, calls, inflight, upstream, rows>>

CallClassifier ==
  /\ pc = "seo"
  /\ env.OPENAI_API_KEY
  /\ Issue("classifier")
  /\ pc' = "classifier"
  /\ UNCHANGED <<page, suspended, variant, env, body, detailedStats, url, videoData, seoAnalysis, metrics,
                 retentionCurve, savedRecord, responses, upstream, rows>>

ClassifierReturn ==
  /\ pc = "classifier"
  /\ \E answer \in ClassifierAnswers :
       /\ Answered("classifier", answer.kind)
       /\ seoAnalysis' = analyzeSEO(answer)
  /\ pc' = "metrics"
  /\ UNCHANGED <<page, suspended, variant, env, body, detailedStats, url, videoData, metrics, retentionCurve,
                 savedRecord, responses, calls, rows>>

\* 4) metrics and 5) curve
ComputeMetrics ==
  /\ pc = "metrics"
  /\ \E m \in calculateMetrics(videoData) :
       /\ metrics' = m
       /\ retentionCurve' \in generateRetentionCurve(m)
  /\ pc' = "save"
  /\ UNCHANGED <<page, suspended, variant, env, body, detailedStats, url, videoData, seoAnalysis, savedRecord,
                 responses, calls, inflight, upstream, rows>>

\* the row of this request, by revision
RowOf ==
  IF variant = "scraping"
  THEN InsertRow(url, videoData, seoAnalysis, metrics, retentionCurve)
  ELSE officialInsertRow(url, videoData, metrics)

\* saveToDatabase throws while building the row: caught, null, no insert issued
SaveThrows ==
  /\ pc = "save"
  /\ variant = "scraping" /\ RowThrows(seoAnalysis)
  /\ savedRecord' = NoRecord
  /\ pc' = "respond"
  /\ UNCHANGED <<page, suspended, variant, env, body, detailedStats, url, videoData, seoAnalysis, metrics,
                 retentionCurve, responses, calls, inflight, upstream, rows>>

\* 6) DB: supabase.from('video_analyses').insert(row).select().single()
CallInsert ==
  /\ pc = "save"
  /\ ~(variant = "scraping" /\ RowThrows(seoAnalysis))
  /\ Issue("datastore")
  /\ pc' = "insert"
  /\ UNCHANGED <<page, suspended, variant, env, body, detailedStats, url, videoData, seoAnalysis, metrics,
                 retentionCurve, savedRecord, responses, upstream, rows>>

InsertReturn ==
  /\ pc = "insert"
  /\ \E answer \in InsertAnswers :
       /\ Answered("datastore", answer)
       /\ rows' = IF answer = "ok" THEN Append(rows, RowOf) ELSE rows
       /\ savedRecord' = saveToDatabase(answer, Len(rows) + 1)
  /\ pc' = "respond"
  /\ UNCHANGED <<page, suspended, variant, env, body, detailedStats, url, videoData, seoAnalysis, metrics,
                 retentionCurve, responses, calls>>

\* 7) the success response
RespondSuccess ==
  /\ pc = "respond"
  /\ \E analysis \in
          (IF variant = "scraping"
           THEN {AnalysisBody(url, videoData, seoAnalysis, metrics, retentionCurve, f) :
                   f \in FormattedStats(videoData)}
           ELSE {officialAnalysisBody(metrics)}) :
       Respond(SuccessResponse(WithId(analysis, savedRecord)))
  /\ UNCHANGED <<page, suspended, variant, env, body, detailedStats, url, videoData, seoAnalysis, metrics,
                 retentionCurve, savedRecord, calls, inflight, upstream, rows>>

\* the credential test looking at the client key only
CredentialsMissingKeyOnly(e) == ~e.TIKTOK_CLIENT_KEY

\* if (!TIKTOK_CLIENT_KEY || !TIKTOK_CLIENT_SECRET)
CredentialsMissing(e) == ~e.TIKTOK_CLIENT_KEY \/ ~e.TIKTOK_CLIENT_SECRET

\* fetchOfficialTiktokData throws when a credential is missing; POST answers 500
OfficialConfigMissing ==
  /\ pc = "official"
  /\ CredentialsMissing(env)
  /\ Respond(ErrorResponse("Configuration API manquante."))
  /\ UNCHANGED <<page, suspended, variant, env, body, detailedStats, url, videoData, seoAnalysis, metrics,
                 retentionCurve, savedRecord, calls, inflight, upstream, rows>>

\* fetchOfficialTiktokData returns the stubbed record; metrics = calculateMetrics(videoData)
FetchOfficial ==
  /\ pc = "official"
  /\ ~CredentialsMissing(env)
  /\ videoData' = MOCK_API_RESPONSE
  /\ metrics' \in officialCalculateMetrics(MOCK_API_RESPONSE)
  /\ pc' = "save"
  /\ UNCHANGED <<page, suspended, variant, env, body, detailedStats, url, seoAnalysis, retentionCurve, savedRecord,
                 responses, calls, inflight, upstream, rows>>

Next ==
  \/ BodyThrows
  \/ RejectUrl
  \/ AcceptUrl
  \/ CallOembed
  \/ OembedReturn
  \/ SkipDetailedStats
  \/ CallScraping
  \/ ScrapingFails
  \/ ScrapingTimeout
  \/ ScrapingHeaders
  \/ ScrapingBody
  \/ SeoWithoutKey
  \/ CallClassifier
  \/ ClassifierReturn
  \/ ComputeMetrics
  \/ SaveThrows
  \/ CallInsert
  \/ InsertReturn
  \/ RespondSuccess
  \/ OfficialConfigMissing
  \/ FetchOfficial

Spec == Init /\ [][Next]_vars

(***************************************************************************)
(* Progress.  The one wait of the handler that carries a timer is the      *)
(* scraping fetch: the runtime fires the 25 s timer while the fetch is     *)
(* pending.  No upstream is bound to answer, and neither the other fetches *)
(* nor response.text() carry a timer.                                      *)
(***************************************************************************)
LiveSpec == Init /\ [][Next]_vars /\ WF_vars(ScrapingTimeout)

(***************************************************************************)
(* The official-API revision with its two upstream calls made.  part_000   *)
(* leaves the credential exchange and the video query commented out and    *)
(* returns a literal; here the strategy extracts the video identifier and  *)
(* queries the API as the specification describes it, and the handler      *)
(* (part_000 lines 42-46, 127-130) treats the result as the code does.     *)
(***************************************************************************)
\* the url holds the /video/<id> pattern
HasVideoId(u) ==
  u.t = "string" /\ \E i \in 1..Len(u.s) : u.s[i] = "/@user/video/7"

\* the API's answer to the video query
OfficialAnswers ==
  {[kind |-> k, data |-> MOCK_API_RESPONSE] : k \in {"reject", "notok"}}
  \cup {[kind |-> "ok", data |-> d] :
          d \in {MOCK_API_RESPONSE,
                 [MOCK_API_RESPONSE EXCEPT !.views = Fin(0), !.likes = Fin(0),
                                           !.comments = Fin(0), !.shares = Fin(0)]}}

\* if (!videoData) return 500
NoDataResponse ==
  [status |-> 500, body |-> [error |-> "Impossible d'obtenir les donnees via l'API TikTok."]]

\* no identifier in the url: the strategy yields no data without calling the API
OfficialNoIdentifier ==
  /\ pc = "official"
  /\ ~CredentialsMissing(env)
  /\ ~HasVideoId(url)
  /\ upstream' = [upstream EXCEPT !.official = "noid"]
  /\ Respond(NoDataResponse)
  /\ UNCHANGED <<page, suspended, variant, env, body, detailedStats, url, videoData, seoAnalysis, metrics,
                 retentionCurve, savedRecord, calls, inflight, rows>>

CallOfficial ==
  /\ pc = "official"
  /\ ~CredentialsMissing(env)
  /\ HasVideoId(url)
  /\ Issue("official")
  /\ pc' = "officialcall"
  /\ UNCHANGED <<page, suspended, variant, env, body, detailedStats, url, videoData, seoAnalysis, metrics,
                 retentionCurve, savedRecord, responses, upstream, rows>>

\* the query returns: its data go to calculateMetrics; a failure is caught, the
\* strategy returns null and POST answers 500
OfficialReturn ==
  /\ pc = "officialcall"
  /\ \E answer \in OfficialAnswers :
       /\ Answered("official", answer.kind)
       /\ IF answer.kind = "ok"
          THEN /\ videoData' = answer.data
               /\ metrics' \in officialCalculateMetrics(answer.data)
               /\ pc' = "save"
               /\ UNCHANGED responses
          ELSE /\ Respond(NoDataResponse)
               /\ UNCHANGED <<videoData, metrics>>
  /\ UNCHANGED <<page, suspended, variant, env, body, detailedStats, url, seoAnalysis, retentionCurve,
                 savedRecord, calls, rows>>

OfficialApiInit == Init /\ variant = "official"

OfficialApiNext ==
  \/ BodyThrows
  \/ RejectUrl
  \/ AcceptUrl
  \/ OfficialConfigMissing
  \/ OfficialNoIdentifier
  \/ CallOfficial
  \/ OfficialReturn
  \/ CallInsert
  \/ InsertReturn
  \/ RespondSuccess

OfficialApiSpec == OfficialApiInit /\ [][OfficialApiNext]_vars

(***************************************************************************)
(* The response assembler as a function of the curve: step 7 of POST       *)
(* applied to curves of every length up to MaxCurveLen, the empty curve    *)
(* included (generateRetentionCurve itself only returns 11-point curves).  *)
(***************************************************************************)
\* longest curve handed to the assembler
MaxCurveLen == 3

\* retention values of the points, in tenths
RetentionValues == {Fin(120), Fin(300), Fin(850)}

AssemblerCurves ==
  {[i \in 1..Len(q) |-> [timePercent |-> 10 * (i - 1), retention |-> q[i]]] :
     q \in SeqsUpTo(RetentionValues, MaxCurveLen)}

AssemblerInit ==
  /\ variant = "scraping"
  /\ env \in Envs
  /\ body = [kind |-> "object", url |-> VideoUrl]
  /\ pc = "respond"
  /\ url = VideoUrl
  /\ detailedStats = NoDetail
  /\ videoData = defaultData
  /\ seoAnalysis = SeoNoKey
  /\ metrics = ZeroMetrics
  /\ retentionCurve \in AssemblerCurves
  /\ savedRecord \in {NoRecord, [saved |-> TRUE, id |-> 1]}
  /\ responses = <<>>
  /\ calls = [u \in Upstreams |-> 0]
  /\ inflight = {}
  /\ upstream = [u \in Upstreams |-> "none"]
  /\ rows = <<>>
  /\ suspended = <<>>
  /\ page = InitialPage

AssemblerNext == RespondSuccess

AssemblerSpec == AssemblerInit /\ [][AssemblerNext]_vars

(***************************************************************************)
(* Concurrent requests.  Every name POST and its helpers assign is a const *)
(* or let of the function call; the module level holds the supabase client *)
(* and the environment reads only.  A second request of the same process   *)
(* is therefore a second set of locals; the runtime runs one handler at a  *)
(* time and passes control at an await.                                    *)
(***************************************************************************)
\* the locals of the running request
RequestLocals ==
  [body |-> body, pc |-> pc, url |-> url, detailedStats |-> detailedStats,
   videoData |-> videoData, seoAnalysis |-> seoAnalysis, metrics |-> metrics,
   retentionCurve |-> retentionCurve, savedRecord |-> savedRecord,
   responses |-> responses, calls |-> calls, inflight |-> inflight,
   upstream |-> upstream]

\* the locals of a request whose handler has just been entered with body b
FreshRequest(b) ==
  [body |-> b, pc |-> "start", url |-> JUndefined, detailedStats |-> NoDetail,
   videoData |-> defaultData, seoAnalysis |-> SeoError, metrics |-> ZeroMetrics,
   retentionCurve |-> <<>>, savedRecord |-> NoRecord, responses |-> <<>>,
   calls |-> [u \in Upstreams |-> 0], inflight |-> {},
   upstream |-> [u \in Upstreams |-> "none"]]

\* the positions at which the handler is inside an await (or has returned)
AwaitPoints == {"start", "oembed", "scrape", "scrapebody", "classifier", "insert", "done"}

\* Switch with videoData declared at module level: one cell for all requests
SwitchSharingVideoData ==
  /\ suspended # <<>>
  /\ pc \in AwaitPoints
  /\ suspended' = <<RequestLocals>>
  /\ LET r == suspended[1]
     IN  /\ body' = r.body /\ pc' = r.pc /\ url' = r.url
         /\ detailedStats' = r.detailedStats /\ videoData' = videoData
         /\ seoAnalysis' = r.seoAnalysis /\ metrics' = r.metrics
         /\ retentionCurve' = r.retentionCurve /\ savedRecord' = r.savedRecord
         /\ responses' = r.responses /\ calls' = r.calls
         /\ inflight' = r.inflight /\ upstream' = r.upstream
  /\ UNCHANGED <<page, variant, env, rows>>

\* the running handler waits at an await and the runtime resumes the other request
Switch ==
  /\ suspended # <<>>
  /\ pc \in AwaitPoints
  /\ suspended' = <<RequestLocals>>
  /\ LET r == suspended[1]
     IN  /\ body' = r.body /\ pc' = r.pc /\ url' = r.url
         /\ detailedStats' = r.detailedStats /\ videoData' = r.videoData
         /\ seoAnalysis' = r.seoAnalysis /\ metrics' = r.metrics
         /\ retentionCurve' = r.retentionCurve /\ savedRecord' = r.savedRecord
         /\ responses' = r.responses /\ calls' = r.calls
         /\ inflight' = r.inflight /\ upstream' = r.upstream
  /\ UNCHANGED <<page, variant, env, rows>>

\* the second url posted while the first request is being served
OtherUrl == JStr(<<"not a url ", "tiktok.com">>)

\* two requests with different urls, the oEmbed lookup as the acquisition strategy,
\* with and without the classifier
ConcurrentInit ==
  /\ variant = "scraping"
  /\ env \in {e \in Envs : ~e.SCRAPINGBEE_API_KEY}
  /\ body = [kind |-> "object", url |-> VideoUrl]
  /\ pc = "start"
  /\ url = JUndefined
  /\ detailedStats = NoDetail
  /\ videoData = defaultData
  /\ seoAnalysis = SeoError
  /\ metrics = ZeroMetrics
  /\ retentionCurve = <<>>
  /\ savedRecord = NoRecord
  /\ responses = <<>>
  /\ calls = [u \in Upstreams |-> 0]
  /\ inflight = {}
  /\ upstream = [u \in Upstreams |-> "none"]
  /\ rows = <<>>
  /\ suspended = <<FreshRequest([kind |-> "object", url |-> OtherUrl])>>
  /\ page = InitialPage

ConcurrentNext ==
  \/ AcceptUrl
  \/ CallOembed
  \/ OembedReturn
  \/ SkipDetailedStats
  \/ SeoWithoutKey
  \/ CallClassifier
  \/ ClassifierReturn
  \/ ComputeMetrics
  \/ SaveThrows
  \/ CallInsert
  \/ InsertReturn
  \/ RespondSuccess
  \/ Switch

ConcurrentSpec == ConcurrentInit /\ [][ConcurrentNext]_vars

(***************************************************************************)
(* The dashboard component: its four useState cells, the requests it has   *)
(* sent (sent) and those not yet completed (outstanding).  A text is a     *)
(* sequence of pieces, as for the url of the request body; an analysis is  *)
(* "null", "undefined" or the name of an analysis object.                  *)
(***************************************************************************)
\* requests one dashboard is followed through
MaxRequests == 2

\* what the user may have typed in the input
TypedUrls ==
  {<<>>, <<"abc">>, <<"https://www.", "tiktok.com", "/@user/video/7">>,
   <<"tiktok.com">>}

\* url.includes('tiktok.com')
ClientAccepts(text) == Includes(text, PlatformToken)

ClientMessage == "Veuillez entrer une URL TikTok valide"
DefaultMessage == "Erreur lors de l'analyse"

\* the parsed bodies the route may answer with, and bodies of other shapes;
\* error "" stands for an absent error member
ResponseData ==
  {[kind |-> "object", success |-> TRUE, analysis |-> a, error |-> ""] : a \in {"A1", "A2"}}
  \cup {[kind |-> "object", success |-> FALSE, analysis |-> "undefined", error |-> e] :
          e \in {"URL TikTok invalide", DefaultMessage, ""}}
  \cup {[kind |-> "null", success |-> FALSE, analysis |-> "undefined", error |-> ""]}

NoResponseData == [kind |-> "null", success |-> FALSE, analysis |-> "undefined", error |-> ""]

\* how the fetch of the dashboard ends: rejected, answered with a body that is
\* not JSON, or answered with a status (ok or not) and a JSON body
PageAnswers ==
  {[kind |-> k, ok |-> FALSE, data |-> NoResponseData] : k \in {"reject", "badjson"}}
  \cup [kind : {"json"}, ok : BOOLEAN, data : ResponseData]

\* the button with its disabled attribute left out
ButtonAlwaysEnabled == TRUE

\* disabled={loading}
ButtonEnabled == ~page.loading

\* onChange: setUrl(e.target.value); the input is never disabled
EditUrl ==
  /\ \E text \in TypedUrls \ {page.url} : page' = [page EXCEPT !.url = text]
  /\ UNCHANGED <<variant, env, body, pc, url, detailedStats, videoData, seoAnalysis, metrics,
                 retentionCurve, savedRecord, responses, calls, inflight, upstream, rows,
                 suspended>>

\* analyzeVideo, the client-side check failing: setError, return
ClickRejected ==
  /\ ButtonEnabled
  /\ ~ClientAccepts(page.url)
  /\ page' = [page EXCEPT !.error = ClientMessage]
  /\ UNCHANGED <<variant, env, body, pc, url, detailedStats, videoData, seoAnalysis, metrics,
                 retentionCurve, savedRecord, responses, calls, inflight, upstream, rows,
                 suspended>>

\* analyzeVideo up to the fetch: the three setters, then the request is sent
ClickAnalyze ==
  /\ ButtonEnabled
  /\ ClientAccepts(page.url)
  /\ page.sent < MaxRequests
  /\ page' = [page EXCEPT !.loading = TRUE, !.error = "", !.analysis = "null",
                          !.outstanding = @ + 1, !.sent = @ + 1]
  /\ UNCHANGED <<variant, env, body, pc, url, detailedStats, videoData, seoAnalysis, metrics,
                 retentionCurve, savedRecord, responses, calls, inflight, upstream, rows,
                 suspended>>

\* the failure test after response.json(), by revision
RequestFailed(revision, answer) ==
  IF revision = "part_001" THEN ~answer.ok ELSE ~answer.ok \/ ~answer.data.success

\* the rest of analyzeVideo once its fetch has ended: try, catch, finally
AfterFetch(p, answer) ==
  LET ended == [p EXCEPT !.loading = FALSE, !.outstanding = @ - 1]
  IN  IF answer.kind = "reject" THEN [ended EXCEPT !.error = "Failed to fetch"]
      ELSE IF answer.kind = "badjson" THEN [ended EXCEPT !.error = "SyntaxError"]
      ELSE IF answer.data.kind = "null" THEN [ended EXCEPT !.error = "TypeError"]
      ELSE IF RequestFailed(p.revision, answer)
        THEN [ended EXCEPT !.error = IF answer.data.error # "" THEN answer.data.error
                                     ELSE DefaultMessage]
      ELSE [ended EXCEPT !.analysis = answer.data.analysis]

RequestCompletes ==
  /\ page.outstanding > 0
  /\ \E answer \in PageAnswers : page' = AfterFetch(page, answer)
  /\ UNCHANGED <<variant, env, body, pc, url, detailedStats, videoData, seoAnalysis, metrics,
                 retentionCurve, savedRecord, responses, calls, inflight, upstream, rows,
                 suspended>>

\* one mounted dashboard of either revision; the route is not running
DashboardInit ==
  /\ variant = "scraping"
  /\ env = [SCRAPINGBEE_API_KEY |-> FALSE, OPENAI_API_KEY |-> FALSE,
            TIKTOK_CLIENT_KEY |-> FALSE, TIKTOK_CLIENT_SECRET |-> FALSE]
  /\ body = [kind |-> "object", url |-> VideoUrl]
  /\ pc = "start"
  /\ url = JUndefined
  /\ detailedStats = NoDetail
  /\ videoData = defaultData
  /\ seoAnalysis = SeoError
  /\ metrics = ZeroMetrics
  /\ retentionCurve = <<>>
  /\ savedRecord = NoRecord
  /\ responses = <<>>
  /\ calls = [u \in Upstreams |-> 0]
  /\ inflight = {}
  /\ upstream = [u \in Upstreams |-> "none"]
  /\ rows = <<>>
  /\ suspended = <<>>
  /\ page \in {[InitialPage EXCEPT !.revision = v] : v \in {"part_001", "page.tsx"}}

DashboardNext ==
  \/ EditUrl
  \/ ClickRejected
  \/ ClickAnalyze
  \/ RequestCompletes

DashboardSpec == DashboardInit /\ [][DashboardNext]_vars

(***************************************************************************)
(* Properties                                                              *)
(***************************************************************************)
Counters == {"views", "likes", "comments", "shares", "saves"}

Finished == pc = "done" /\ Len(responses) = 1

\* the handler of the last revision has run calculateMetrics for this request
MetricsComputed ==
  /\ variant = "scraping"
  /\ \/ pc \in {"save", "insert", "respond"}
     \/ Finished /\ responses[1].status = 200

\* the url of the body is missing, empty, or a string without the platform token
UrlMissingOrForeign ==
  \/ body.kind = "primitive"
  \/ /\ body.kind = "object"
     /\ \/ body.url.t = "undefined"
        \/ body.url.t = "string" /\ ~Includes(body.url.s, PlatformToken)

\* C1: a request whose url is missing, empty or a string without 'tiktok.com' is
\* answered 400 with an {error} body, and no upstream is ever called for it: the
\* handler goes from its start straight to its end, every call counter stays 0 and
\* nothing is in flight or stored.
C1_InvalidUrlRejectedWithoutCalls ==
  UrlMissingOrForeign =>
    /\ pc \in {"start", "done"}
    /\ \A u \in Upstreams : calls[u] = 0 /\ upstream[u] = "none"
    /\ inflight = {} /\ rows = <<>>
    /\ pc = "done" =>
         /\ Len(responses) = 1
         /\ responses[1].status = 400
         /\ DOMAIN responses[1].body = {"error"}

C1_Witness ==
  /\ body.kind = "object" /\ body.url.t = "string" /\ body.url.s # <<>>
  /\ ~Includes(body.url.s, PlatformToken)
  /\ Finished /\ responses[1].status = 400

ScrapingFailures == {"reject", "timeout", "notok", "badtext", "nodata"}

\* oEmbed failed and the scraping strategy was disabled or failed
AcquisitionFailed ==
  /\ upstream.oembed \in {"reject", "notok", "badjson"}
  /\ \/ ~env.SCRAPINGBEE_API_KEY /\ upstream.scraping = "none"
     \/ upstream.scraping \in ScrapingFailures

\* C2: when the oEmbed lookup fails and the scraping strategy is disabled or fails,
\* the request ends with status 200, success = true, and the five counters of stats
\* are present and 0.
C2_AllStrategiesFailStillSuccess ==
  (variant = "scraping" /\ pc = "done" /\ AcquisitionFailed) =>
    /\ Len(responses) = 1
    /\ responses[1].status = 200
    /\ responses[1].body.success = TRUE
    /\ \A c \in Counters :
         /\ c \in DOMAIN responses[1].body.analysis.stats
         /\ responses[1].body.analysis.stats[c] = Fin(0)

C2_Witness ==
  /\ variant = "scraping" /\ Finished
  /\ upstream.oembed = "reject" /\ upstream.scraping = "notok"
  /\ responses[1].status = 200

Without(f, key) == [x \in DOMAIN f \ {key} |-> f[x]]

\* the analysis the request would return had the insert succeeded, less its id
AnalysisIfSaved ==
  IF variant = "scraping"
  THEN {AnalysisBody(url, videoData, seoAnalysis, metrics, retentionCurve, f) :
          f \in FormattedStats(videoData)}
  ELSE {officialAnalysisBody(metrics)}

InsertFailed == upstream.datastore \in {"none", "error", "throw"}

\* the request passed validation and its handler is past saveToDatabase
PastSave ==
  /\ Validate(body) = "valid"
  /\ pc \in {"respond", "done"}
  /\ variant = "official" => env.TIKTOK_CLIENT_KEY /\ env.TIKTOK_CLIENT_SECRET

\* C3: for a request that passed validation, the response has status 200 and
\* success = true and its analysis, id apart, is the one a successful insert gives,
\* whether the insert succeeded, returned an error or threw; the id is absent
\* exactly when the insert did not succeed, and then no row was stored.
C3_PersistenceFailureOnlyDropsId ==
  (PastSave /\ pc = "done") =>
    /\ Len(responses) = 1
    /\ responses[1].status = 200
    /\ responses[1].body.success = TRUE
    /\ Without(responses[1].body.analysis, "id") \in AnalysisIfSaved
    /\ ("id" \in DOMAIN responses[1].body.analysis) <=> ~InsertFailed
    /\ InsertFailed => rows = <<>>

C3_Witness ==
  /\ PastSave /\ Finished /\ variant = "scraping"
  /\ upstream.datastore = "throw"
  /\ responses[1].status = 200
  /\ "id" \notin DOMAIN responses[1].body.analysis

ResponseShapeOk(r) ==
  \/ r.status = 200 /\ DOMAIN r.body = {"success", "analysis"} /\ r.body.success = TRUE
  \/ r.status = 400 /\ DOMAIN r.body = {"error"}
  \/ r.status = 500 /\ DOMAIN r.body = {"error", "details"}

\* C4: a request never has more than one response, it has exactly one when its
\* handler has ended (normally or through its catch block) and none before, and
\* every response is 200 {success: true, analysis}, 400 {error} or
\* 500 {error, details}.
C4_OneResponseOfThreeShapes ==
  /\ Len(responses) <= 1
  /\ (pc = "done") <=> (Len(responses) = 1)
  /\ \A i \in 1..Len(responses) : ResponseShapeOk(responses[i])

C4_Witness ==
  /\ Finished /\ responses[1].status = 500
  /\ variant = "official" /\ Validate(body) = "valid"

\* the request carries a bad or missing url: the body is not JSON, has no url
\* member, or its url is not a string or lacks the platform token
BadOrMissingUrl ==
  \/ body.kind \in {"unparsable", "null", "primitive"}
  \/ body.kind = "object" /\ body.url.t # "string"
  \/ body.kind = "object" /\ body.url.t = "string" /\ ~Includes(body.url.s, PlatformToken)

\* C5 (as claimed): every request with a bad or missing url, an unparsable body and
\* a url that is not a string included, is answered 400 and never 500.
C5_BadUrlAlways400 ==
  (BadOrMissingUrl /\ pc = "done") =>
    /\ Len(responses) = 1
    /\ responses[1].status = 400

MetricNames ==
  {"engagementRate", "viralScore", "retentionRate", "likesRatio", "commentsRatio",
   "sharesRatio", "savesRatio", "totalEngagements"}

\* C6: for a record with views = 0 every metric is exactly 0 (a finite number, so
\* neither NaN nor an infinity), whatever likes, comments, shares and saves are.
C6_ZeroViewsZeroMetrics ==
  (MetricsComputed /\ videoData.views = Fin(0)) =>
    /\ DOMAIN metrics = MetricNames
    /\ \A m \in MetricNames : metrics[m] = Fin(0)

C6_Witness ==
  /\ MetricsComputed /\ videoData.views = Fin(0)
  /\ videoData.likes.k = "fin" /\ videoData.likes.n > 0
  /\ metrics.likesRatio = Fin(0)

AllFinite == \A c \in Counters : videoData[c].k = "fin"

SumOfEngagements ==
  videoData.likes.n + videoData.comments.n + videoData.shares.n + videoData.saves.n

\* the engagement bonus of a finite counter set with views > 0, by cross-multiplication
ClaimedE ==
  IF 100 * SumOfEngagements > 15 * videoData.views.n THEN 30
  ELSE IF 100 * SumOfEngagements > 10 * videoData.views.n THEN 20
  ELSE IF 100 * SumOfEngagements > 5 * videoData.views.n THEN 10
  ELSE 0

ClaimedV ==
  IF videoData.views.n > 1000000 THEN 20
  ELSE IF videoData.views.n > 100000 THEN 10
  ELSE 0

IsExample ==
  /\ videoData.views = Fin(1000) /\ videoData.likes = Fin(100)
  /\ videoData.comments = Fin(50) /\ videoData.shares = Fin(30)
  /\ videoData.saves = Fin(20)

\* C7: for finite counters with views > 0, viralScore = min(100, 50 + E + V) with E
\* the tier of 100 * (likes + comments + shares + saves) / views above 15, 10, 5 and
\* V the tier of views above 1,000,000, 100,000; the example record scores 80.
C7_ViralScoreTiers ==
  MetricsComputed =>
    /\ (AllFinite /\ videoData.views.n > 0) =>
          metrics.viralScore = Fin(Min(100, 50 + ClaimedE + ClaimedV))
    /\ IsExample => metrics.viralScore = Fin(80)

C7_Witness ==
  /\ MetricsComputed /\ IsExample /\ metrics.viralScore = Fin(80)

\* C8: the viralScore of every record the acquirer produces is a finite integer
\* between 0 and 100.
C8_ViralScoreRange ==
  MetricsComputed =>
    /\ metrics.viralScore.k = "fin"
    /\ metrics.viralScore.n \in 0..100

C8_Witness ==
  /\ MetricsComputed
  /\ videoData.views.k = "inf" /\ videoData.likes.k = "inf"
  /\ metrics.viralScore = Fin(70)

\* x (in hundredths) is 100 * t / v rounded to 2 decimals: within half a hundredth
NearestHundredth(x, t, v) ==
  /\ x.k = "fin"
  /\ 2 * Abs(x.n * v - 10000 * t) <= v

\* C9: for finite counters with views > 0, totalEngagements is the sum of the four
\* counters, engagementRate is 100 * totalEngagements / views to 2 decimals and each
\* ratio is 100 * counter / views to 2 decimals; the example record gives 20.00,
\* 10.00, 5.00, 3.00 and 2.00.
C9_RatiosRounded ==
  MetricsComputed =>
    /\ (AllFinite /\ videoData.views.n > 0) =>
          /\ metrics.totalEngagements = Fin(SumOfEngagements)
          /\ NearestHundredth(metrics.engagementRate, SumOfEngagements, videoData.views.n)
          /\ NearestHundredth(metrics.likesRatio, videoData.likes.n, videoData.views.n)
          /\ NearestHundredth(metrics.commentsRatio, videoData.comments.n, videoData.views.n)
          /\ NearestHundredth(metrics.sharesRatio, videoData.shares.n, videoData.views.n)
          /\ NearestHundredth(metrics.savesRatio, videoData.saves.n, videoData.views.n)
    /\ IsExample =>
          /\ metrics.engagementRate = Fin(2000) /\ metrics.likesRatio = Fin(1000)
          /\ metrics.commentsRatio = Fin(500) /\ metrics.sharesRatio = Fin(300)
          /\ metrics.savesRatio = Fin(200)

C9_Witness ==
  /\ MetricsComputed
  /\ videoData.views = Fin(3000) /\ videoData.likes = Fin(50)
  /\ metrics.likesRatio = Fin(167) /\ metrics.totalEngagements = Fin(50)

\* x (in tenths) is min(90, 4 * 100 * t / v) rounded to 1 decimal, for v > 0
NearestTenthOfMin(x, t, v) ==
  /\ x.k = "fin"
  /\ IF 400 * t >= 90 * v THEN x.n = 900
     ELSE 2 * Abs(x.n * v - 4000 * t) <= v

\* C10 (as claimed): the retentionRate of every record the acquirer produces is
\* min(90, 4 * engagementRate) rounded to 1 decimal and lies in the closed range
\* [0, 90] (0 to 900 tenths).
C10_RetentionRateInRange ==
  MetricsComputed =>
    /\ metrics.retentionRate.k = "fin"
    /\ metrics.retentionRate.n \in 0..900
    /\ (AllFinite /\ videoData.views.n > 0) =>
          NearestTenthOfMin(metrics.retentionRate, SumOfEngagements, videoData.views.n)

\* the handler of the last revision has run generateRetentionCurve for this request
CurveGenerated == MetricsComputed

\* C11: whatever the metrics are (a NaN or infinite engagementRate included), the
\* curve generateRetentionCurve returns has exactly 11 points and the timePercent
\* of its points are 0, 10, 20, ..., 100 in that order.
C11_ElevenPointsInOrder ==
  CurveGenerated =>
    /\ Len(retentionCurve) = 11
    /\ \A i \in 1..11 : retentionCurve[i].timePercent = 10 * (i - 1)

C11_Witness ==
  /\ CurveGenerated
  /\ metrics.engagementRate.k = "nan"
  /\ Len(retentionCurve) = 11
  /\ retentionCurve[1].timePercent = 0 /\ retentionCurve[11].timePercent = 100

\* clamp(5 * engagementRate, 30, 85) in hundredths, for an engagementRate that is a
\* number (in hundredths)
ClampedBase(engagementRate) ==
  IF engagementRate.k = "inf"
  THEN (IF engagementRate.n > 0 THEN 8500 ELSE 3000)
  ELSE IF 5 * engagementRate.n > 8500 THEN 8500
  ELSE IF 5 * engagementRate.n < 3000 THEN 3000
  ELSE 5 * engagementRate.n

\* x (in tenths) is max(10, 0.4 * base) rounded to 1 decimal, base in hundredths
NearestTenthOfFloor(x, base) ==
  /\ x.k = "fin"
  /\ IF 4 * base < 1000 THEN x.n = 100
     ELSE 2 * Abs(100 * x.n - 4 * base) <= 100

\* C12 (as claimed): for every metrics input the retention values of the curve are
\* numbers that never increase along the sequence, each is at least 10 (100 tenths),
\* and the last one is max(10, 0.4 * baseRetention) to 1 decimal with
\* baseRetention = clamp(5 * engagementRate, 30, 85).
C12_CurveNonIncreasingFloored ==
  CurveGenerated =>
    /\ \A i \in 1..Len(retentionCurve) :
         /\ retentionCurve[i].retention.k = "fin"
         /\ retentionCurve[i].retention.n >= 100
    /\ \A i \in 1..(Len(retentionCurve) - 1) :
         retentionCurve[i].retention.n >= retentionCurve[i + 1].retention.n
    /\ metrics.engagementRate.k # "nan" =>
         NearestTenthOfFloor(retentionCurve[Len(retentionCurve)].retention,
                             ClampedBase(metrics.engagementRate))

\* the sum of the retention values (tenths) of the first n points of a curve
RECURSIVE TotalRetention(_, _)
TotalRetention(curve, n) ==
  IF n = 0 THEN 0 ELSE TotalRetention(curve, n - 1) + curve[n].retention.n

Succeeded == variant = "scraping" /\ Finished /\ responses[1].status = 200

\* the hashtag list the acquisition strategies produced: the scraped one when the
\* scraping strategy returned data, the (empty) one of extractBasicData otherwise
ProducedHashtags ==
  IF detailedStats.found THEN detailedStats.data.hashtags ELSE defaultData.hashtags

\* C14: the hashtag list an acquisition strategy produced is, element for element
\* and in the same order, the hashtags member of the merged record from the merge
\* on and the analysis.video.hashtags of the success response: nothing is
\* reordered, deduplicated, dropped or appended.
C14_HashtagsPreserved ==
  /\ (variant = "scraping" /\ pc \in {"seo", "classifier", "metrics", "save", "insert", "respond"})
       => videoData.hashtags = ProducedHashtags
  /\ Succeeded => responses[1].body.analysis.video.hashtags = ProducedHashtags

C14_Witness ==
  /\ Succeeded
  /\ detailedStats.found
  /\ detailedStats.data.hashtags = <<"fyp", "dance">>
  /\ responses[1].body.analysis.video.hashtags = <<"fyp", "dance">>

\* C15 (as claimed): in the stats of every success response each of views, likes,
\* comments, shares and saves is a non-negative integer, whatever the stats object
\* of the scraped page holds.
C15_CountersNonNegativeIntegers ==
  Succeeded =>
    \A c \in Counters :
      /\ responses[1].body.analysis.stats[c].k = "fin"
      /\ responses[1].body.analysis.stats[c].n >= 0

\* the official-API strategy runs for this request without its two credentials
OfficialWithoutCredentials ==
  /\ variant = "official"
  /\ Validate(body) = "valid"
  /\ ~(env.TIKTOK_CLIENT_KEY /\ env.TIKTOK_CLIENT_SECRET)

\* C16: when the official-API strategy runs while the client key or the client
\* secret is not configured, the request ends with a 500 response and on the way
\* no metrics are computed, no upstream of another strategy (or any other) is
\* called and no row is stored.
C16_MissingCredentialsAbort ==
  OfficialWithoutCredentials =>
    /\ pc \in {"start", "official", "done"}
    /\ metrics = ZeroMetrics /\ videoData = defaultData
    /\ \A u \in Upstreams : calls[u] = 0 /\ upstream[u] = "none"
    /\ inflight = {} /\ rows = <<>> /\ ~savedRecord.saved
    /\ pc = "done" =>
         /\ Len(responses) = 1
         /\ responses[1].status = 500
         /\ "analysis" \notin DOMAIN responses[1].body

C16_Witness ==
  /\ OfficialWithoutCredentials
  /\ env.TIKTOK_CLIENT_KEY /\ ~env.TIKTOK_CLIENT_SECRET
  /\ Finished /\ responses[1].status = 500

\* analyzeSEO has returned to the handler of the last revision
PastSeo ==
  /\ variant = "scraping"
  /\ pc \in {"metrics", "save", "insert", "respond"} \/ Succeeded

\* the classifier call threw, answered a non-OK status, or returned a body or a
\* content that is not JSON (or no content string at all)
ClassifierFailures == {"reject", "notok", "badjson", "nocontent", "unparsable"}

\* C17: without a classifier credential analyzeSEO returns the static answer
\* {score 50, 'configure the classifier'} and no classifier request is issued; when
\* the classifier call throws, is not OK or returns unparsable content it returns
\* the other static answer {score 50, 'classifier error'}; in neither case does it
\* throw: the handler goes on to the metrics and the request is not answered 500.
C17_SeoFallbacks ==
  /\ (PastSeo /\ ~env.OPENAI_API_KEY) =>
       /\ seoAnalysis.score = JNum(Fin(50))
       /\ seoAnalysis.recommendations = <<"Configurez OpenAI pour une analyse complete">>
       /\ calls.classifier = 0 /\ upstream.classifier = "none"
  /\ (variant = "scraping" /\ upstream.classifier \in ClassifierFailures) =>
       /\ PastSeo
       /\ seoAnalysis.score = JNum(Fin(50))
       /\ seoAnalysis.recommendations = <<"Erreur analyse IA">>
       /\ calls.classifier = 1
  /\ (variant = "scraping" /\ pc = "done" /\ Validate(body) = "valid") =>
       responses[1].status = 200

C17_Witness ==
  /\ Succeeded
  /\ upstream.classifier = "unparsable"
  /\ responses[1].body.analysis.seo.recommendations = <<"Erreur analyse IA">>

\* C18 (as claimed): the seo section of every success response is an object with a
\* numeric score between 0 and 100, a niche and a list of at most 3
\* recommendations, whatever the classifier answered.
C18_SeoSectionWellFormed ==
  Succeeded =>
    LET seo == responses[1].body.analysis.seo
    IN  /\ seo.kind = "object"
        /\ seo.score.t = "number"
        /\ seo.score.num.k = "fin"
        /\ seo.score.num.n \in 0..100
        /\ Len(seo.recommendations) <= 3

\* the scraping strategy is waiting: for the answer of the fetch, or for the body
ScrapingPending == pc = "scrape" \/ pc = "scrapebody"

\* C19 (as claimed): the scraping strategy always returns: whenever it waits for
\* the scraping service, for the headers or for the body after them, the wait ends
\* (by an answer or by the 25 s abort) and the request proceeds to the SEO step.
C19_ScrapingAlwaysReturns == ScrapingPending ~> (pc = "seo")

\* the fields parseDetailedStats supplies, and those only extractBasicData supplies
ScrapedFields ==
  {"views", "likes", "comments", "shares", "saves", "description",
   "authorUsername", "authorFollowers", "hashtags"}
BaselineOnlyFields == {"title", "thumbnail", "authorUrl"}

\* the step in which extractDetailedStats returns data to a handler whose oEmbed
\* lookup had succeeded
MergeStep ==
  /\ variant = "scraping"
  /\ pc = "scrapebody" /\ pc' = "seo"
  /\ upstream.oembed = "ok"
  /\ detailedStats'.found

\* C20: when both the oEmbed and the scraping strategy yield data, the merged
\* record has each of the nine scraped fields equal, as a whole, to the scraping
\* result's and each of title, thumbnail and authorUrl equal to what the record
\* held before the merge, that is to what the oEmbed baseline produced; no field
\* is added or lost.
C20_MergeOverwritesAndKeeps ==
  [][MergeStep =>
       /\ DOMAIN videoData' = DOMAIN videoData
       /\ DOMAIN detailedStats'.data = ScrapedFields
       /\ \A f \in ScrapedFields : videoData'[f] = detailedStats'.data[f]
       /\ \A f \in BaselineOnlyFields : videoData'[f] = videoData[f]]_vars

C20_Witness ==
  /\ variant = "scraping" /\ pc = "seo"
  /\ upstream.oembed = "ok" /\ detailedStats.found
  /\ videoData.title = "Dance" /\ videoData.authorUrl = "https://www.tiktok.com/@alice"
  /\ videoData.description = "my dance" /\ videoData.authorUsername = "alice"
  /\ videoData.views = Fin(1000) /\ videoData.hashtags = <<"fyp">>

\* the records extractBasicData can have produced, given how the oEmbed lookup ended
BaselineRecords ==
  {extractBasicData(answer) : answer \in {a \in OembedAnswers : a.kind = upstream.oembed}}

\* the scraping strategy ran and failed softly: network error, timeout, non-OK
\* status, unreadable body, or markup without script, JSON, item or stats
ScrapingFailedSoftly ==
  /\ variant = "scraping"
  /\ upstream.scraping \in ScrapingFailures

\* C21: when the scraping strategy fails softly it returns no data without
\* throwing (the handler goes on and the request is not answered 500), and the
\* video record every later step uses is, field for field, a record the oEmbed
\* baseline produces for the answer it got; the success response shows that record.
C21_SoftFailureKeepsBaseline ==
  ScrapingFailedSoftly =>
    /\ ~detailedStats.found
    /\ pc \in {"seo", "classifier", "metrics", "save", "insert", "respond", "done"}
    /\ videoData \in BaselineRecords
    /\ pc = "done" =>
         /\ responses[1].status = 200
         /\ responses[1].body.analysis.video.description = videoData.description
         /\ responses[1].body.analysis.video.author.username = videoData.authorUsername
         /\ \A c \in Counters : responses[1].body.analysis.stats[c] = Fin(0)

C21_Witness ==
  /\ ScrapingFailedSoftly /\ Finished
  /\ upstream.scraping = "nodata" /\ upstream.oembed = "ok"
  /\ videoData.title = "Dance" /\ videoData.authorUsername = "Alice"
  /\ responses[1].status = 200

OembedFailures == {"reject", "notok", "badjson"}

\* C22: extractBasicData never throws: when the oEmbed lookup meets a network
\* failure, a non-OK status or an unparsable body, the handler goes on (no 500) and
\* the record it holds when extractBasicData has returned is the all-defaults one:
\* every counter and authorFollowers 0, hashtags empty, thumbnail null,
\* description, authorUsername and authorUrl empty.
C22_BasicDataDefaultsOnFailure ==
  (variant = "scraping" /\ upstream.oembed \in OembedFailures) =>
    /\ pc # "oembed"
    /\ pc = "done" => responses[1].status = 200
    /\ pc = "detailed" =>
         /\ \A c \in Counters : videoData[c] = Fin(0)
         /\ videoData.authorFollowers = Fin(0)
         /\ videoData.hashtags = <<>>
         /\ videoData.thumbnail = JNull
         /\ videoData.description = ""
         /\ videoData.authorUsername = ""
         /\ videoData.authorUrl = ""
         /\ videoData = defaultData

C22_Witness ==
  /\ variant = "scraping" /\ pc = "detailed"
  /\ upstream.oembed = "notok"
  /\ videoData = defaultData

\* the official-API strategy yielded no data: no identifier in the url, or the
\* API call failed
OfficialNoData ==
  variant = "official" /\ upstream.official \in {"noid", "reject", "notok"}

HasAnswered(u) == upstream[u] # "none" /\ u \notin inflight

\* C24: in the last revision a request is one sequential pass: every upstream is
\* called at most once (no retry), at most one call is in flight at any time, the
\* scraping call is made only with its key configured and only after the oEmbed
\* lookup has ended, the classifier call only after the scraping call has ended
\* (or was skipped), the insert only after the classifier step, the metrics and
\* the curve, and the response only after the insert has ended or was given up.
C24_SinglePassInOrder ==
  variant = "scraping" =>
    /\ \A u \in Upstreams : calls[u] <= 1
    /\ Cardinality(inflight) <= 1
    /\ \A u \in Upstreams : (u \in inflight) => calls[u] = 1
    /\ calls.scraping = 1 => (env.SCRAPINGBEE_API_KEY /\ HasAnswered("oembed"))
    /\ pc \in {"seo", "classifier"} =>
         /\ HasAnswered("oembed")
         /\ IF env.SCRAPINGBEE_API_KEY THEN HasAnswered("scraping")
            ELSE calls.scraping = 0
    /\ calls.classifier = 1 =>
         (env.OPENAI_API_KEY /\ HasAnswered("oembed") /\ calls.scraping = 1 => HasAnswered("scraping"))
    /\ pc = "metrics" => (calls.classifier = 1 => HasAnswered("classifier"))
    /\ calls.datastore = 1 =>
         /\ Len(retentionCurve) = 11
         /\ metrics \in calculateMetrics(videoData)
         /\ calls.classifier = 1 => HasAnswered("classifier")
    /\ Succeeded =>
         /\ inflight = {}
         /\ calls.oembed = 1
         /\ calls.datastore = 1 => HasAnswered("datastore")

C24_Witness ==
  /\ Succeeded
  /\ calls.oembed = 1 /\ calls.scraping = 1 /\ calls.classifier = 1 /\ calls.datastore = 1
  /\ upstream.scraping = "ok" /\ upstream.classifier = "ok" /\ upstream.datastore = "ok"

\* the handler is inside saveToDatabase, waiting for the answer of the insert
InsertPending == pc = "insert" /\ "datastore" \in inflight

\* C25: persistence never blocks the response: a handler that waits for the
\* insert always gets past that wait and on to the success response, also when
\* the datastore never answers.
C25_PersistenceNeverBlocks == InsertPending ~> (pc \in {"respond", "done"})

\* C26: every analysis that ends in the success response has issued exactly one
\* insert to the datastore, whatever the classifier answered.
C26_OneInsertPerSuccess == Succeeded => calls.datastore = 1

\* the requests of the process: the running one and the suspended ones
Requests == {RequestLocals} \cup {suspended[i] : i \in 1..Len(suspended)}

\* what request r holds is what the handler's functions give for r's own body
\* and the answers r's own upstream calls got
OwnResults(r) ==
  LET ok == r.pc = "done" /\ r.responses[1].status = 200
      past(positions) == r.pc \in positions \/ ok
  IN
  /\ past({"basic", "oembed"}) => r.url = UrlOf(r.body)
  /\ past({"detailed", "seo", "classifier", "metrics", "save", "insert", "respond"}) =>
       r.videoData \in
         {IF r.detailedStats.found /\ r.pc # "detailed"
            THEN Merge(extractBasicData(a), r.detailedStats.data)
            ELSE extractBasicData(a) :
          a \in {x \in OembedAnswers : x.kind = r.upstream.oembed}}
  /\ past({"metrics", "save", "insert", "respond"}) =>
       r.seoAnalysis \in
         (IF r.calls.classifier = 0 THEN {SeoNoKey}
          ELSE {analyzeSEO(a) : a \in {x \in ClassifierAnswers : x.kind = r.upstream.classifier}})
  /\ past({"save", "insert", "respond"}) =>
       /\ r.metrics \in calculateMetrics(r.videoData)
       /\ r.retentionCurve \in generateRetentionCurve(r.metrics)
  /\ r.savedRecord.saved =>
       /\ r.savedRecord.id \in 1..Len(rows)
       /\ rows[r.savedRecord.id] =
            InsertRow(r.url, r.videoData, r.seoAnalysis, r.metrics, r.retentionCurve)
  /\ ok =>
       \E f \in FormattedStats(r.videoData) :
         r.responses =
           <<SuccessResponse(WithId(AnalysisBody(r.url, r.videoData, r.seoAnalysis, r.metrics,
                                                 r.retentionCurve, f), r.savedRecord))>>

\* C27: however two concurrent requests are interleaved, each request's video
\* record, classifier result, metrics, curve, stored row and response are those
\* of its own body and its own upstream answers, as when it runs alone.
C27_RequestsIsolated == variant = "scraping" => \A r \in Requests : OwnResults(r)

\* both requests have answered 200, with different video records and classifier
\* results, the one that was posted first having been stored second
C27_Witness ==
  /\ Len(suspended) = 1
  /\ pc = "done" /\ suspended[1].pc = "done"
  /\ body.url = VideoUrl /\ suspended[1].body.url = OtherUrl
  /\ videoData # suspended[1].videoData
  /\ seoAnalysis # suspended[1].seoAnalysis
  /\ savedRecord = [saved |-> TRUE, id |-> 2]
  /\ suspended[1].savedRecord = [saved |-> TRUE, id |-> 1]

\* the page shows results: {analysis && ...} renders
ShowsResults == page.analysis \notin {"null", "undefined"}

\* C28: the dashboard never holds a non-empty error message together with an
\* analysis: the error banner is never shown above the results of an earlier
\* analysis.
C28_ErrorAndAnalysisExclusive == ~(page.error # "" /\ ShowsResults)

\* C29: at most one request of the dashboard is outstanding, loading is true
\* exactly while one is (from the click to the completion, whatever the
\* outcome), and a click rejected by the client-side check sends no request
\* and leaves loading false.
C29_LoadingIffOneOutstanding ==
  /\ [](page.outstanding \in {0, 1} /\ (page.loading <=> page.outstanding = 1))
  /\ [][page'.error = ClientMessage =>
          /\ page'.sent = page.sent
          /\ page'.outstanding = page.outstanding
          /\ ~page'.loading]_vars

\* the second request is outstanding, after the first has completed with an error
C29_Witness ==
  /\ page.sent = 2
  /\ page.loading /\ page.outstanding = 1

\* the engagement bonus inside the viralScore of the metrics record: what is
\* left of the score above the base and the bonus of the view count (the
\* ceiling of 100 is the largest sum the tiers can give)
BonusInScore == metrics.viralScore.n - 50 - ViewsBonus(OrZero(videoData.views))

\* a metrics record computed from views other than 0 with a finite reported rate
RateReported ==
  /\ MetricsComputed
  /\ ~IsZero(OrZero(videoData.views))
  /\ metrics.engagementRate.k = "fin"

\* C30 (as claimed): the engagement bonus follows the reported 2-decimal
\* engagementRate: at most 20 when it is at most 15, at most 10 when it is at
\* most 10, and 0 when it is at most 5.
C30_ScoreFollowsReportedRate ==
  RateReported =>
    /\ metrics.engagementRate.n <= 1500 => BonusInScore <= 20
    /\ metrics.engagementRate.n <= 1000 => BonusInScore <= 10
    /\ metrics.engagementRate.n <= 500 => BonusInScore = 0

\* C30 (amended): the engagement bonus is the tier of the exact rate, so it
\* follows the reported rate wherever that differs from 5, 10 and 15: below a
\* threshold the bonus is below its tier, above a threshold it has reached it;
\* at a reported rate equal to a threshold either neighbouring tier may apply.
C30_ScoreFollowsRateOffThresholds ==
  RateReported =>
    /\ metrics.engagementRate.n < 1500 => BonusInScore <= 20
    /\ metrics.engagementRate.n < 1000 => BonusInScore <= 10
    /\ metrics.engagementRate.n < 500 => BonusInScore = 0
    /\ metrics.engagementRate.n > 1500 => BonusInScore = 30
    /\ metrics.engagementRate.n > 1000 => BonusInScore >= 20
    /\ metrics.engagementRate.n > 500 => BonusInScore >= 10

\* a record just past a tier: reported rate 20.00 with bonus 30, stored
C30_Witness ==
  /\ RateReported /\ pc = "respond"
  /\ metrics.engagementRate = Fin(2000) /\ BonusInScore = 30
  /\ videoData.views = Fin(1000)

=============================================================================
